---- MODULE Spec2Model ----
(***************************************************************************)
(* Cross-platform product matching and price ranking                       *)
(* (src/price_comparison.py, driven by handle_message in src/main.py),     *)
(* link parsing (src/link_parser.py) and the replies of the bot.           *)
(*                                                                         *)
(* Text is a sequence of characters; a character is a one-element string,  *)
(* and a non-ASCII character is written by its code point ("U+00E9").      *)
(* A similarity score and an extracted price are exact rationals           *)
(* <<numerator, denominator>>; Python's None is the empty tuple.           *)
(***************************************************************************)
EXTENDS Integers, Sequences, FiniteSets, TLC

VARIABLES
    pc,                \* position of the handle_message flow
    heap,              \* the product dicts: object id -> fields
    scrapers,          \* keys of the collaborator mapping, in insertion order
    idx,               \* position of the for loop over scrapers.items()
    similar_products,  \* the list search_across_platforms builds (object ids)
    calls,             \* log of search_product invocations <<platform, query>>
    returned,          \* log of what each invoked collaborator did
    sorted_products,   \* the list compare_prices returned (object ids)
    sim,               \* state of one similarity evaluation (SpecSim)
    rank,              \* state of one ranking evaluation (SpecRank)
    call               \* state of one call of find_similar_products,
                       \* normalize_text, extract_numeric_price or
                       \* parse_product_link; the message and the replies
                       \* of handle_message (SpecBot)

vars == <<pc, heap, scrapers, idx, similar_products, calls, returned,
          sorted_products, sim, rank, call>>

(***************************************************************************)
(* Bounds of the model.                                                    *)
(***************************************************************************)
MaxNameLen == 4
MaxResults == 2
MaxCandidates == 3
MaxProducts == 4

(***************************************************************************)
(* Characters.                                                             *)
(***************************************************************************)
UpperChars == <<"A","B","C","D","E","F","G","H","I","J","K","L","M",
                "N","O","P","Q","R","S","T","U","V","W","X","Y","Z">>
LowerChars == <<"a","b","c","d","e","f","g","h","i","j","k","l","m",
                "n","o","p","q","r","s","t","u","v","w","x","y","z">>
DigitChars == <<"0","1","2","3","4","5","6","7","8","9">>

Range(s) == {s[i] : i \in DOMAIN s}

SpaceChars == {" ", "\t", "\n"}
UpperSet == Range(UpperChars)
DigitSet == Range(DigitChars)
WordChars == UpperSet \cup Range(LowerChars) \cup DigitSet \cup {"_"}

IsSpace(c) == c \in SpaceChars
IsWord(c) == c \in WordChars
IsDigit(c) == c \in DigitSet

\* str.lower() on one character
LowerChar(c) ==
    IF c \in UpperSet
    THEN LowerChars[CHOOSE i \in DOMAIN UpperChars : UpperChars[i] = c]
    ELSE IF c = "U+00C9" THEN "U+00E9"      \* LATIN CAPITAL LETTER E WITH ACUTE
    ELSE c

\* unicodedata.normalize('NFKD', c).encode('ASCII', 'ignore') on one character
NfkdAscii(c) ==
    CASE c = "U+00E9" -> <<"e">>            \* e + combining acute, the accent dropped
      [] c = "U+00C9" -> <<"E">>
      [] c = "U+210B" -> <<"H">>            \* SCRIPT CAPITAL H, compatibility form of H
      [] c = "U+0639" -> <<>>               \* ARABIC LETTER AIN, no ASCII form
      [] OTHER -> <<c>>

\* re.sub(r'[^\w\s]', ' ', text) on one character
PunctToSpace(c) == IF IsWord(c) \/ IsSpace(c) THEN c ELSE " "

\* text.lower()
Lower(text) == [i \in DOMAIN text |-> LowerChar(text[i])]

\* unicodedata.normalize('NFKD', text).encode('ASCII', 'ignore').decode('utf-8'):
\* the ASCII forms of the characters, concatenated (the text is halved so
\* that the depth of the recursion stays logarithmic)
RECURSIVE RemoveAccents(_)
RemoveAccents(text) ==
    IF text = <<>> THEN <<>>
    ELSE IF Len(text) = 1 THEN NfkdAscii(text[1])
    ELSE LET mid == Len(text) \div 2
         IN  RemoveAccents(SubSeq(text, 1, mid))
                \o RemoveAccents(SubSeq(text, mid + 1, Len(text)))

\* re.sub(r'[^\w\s]', ' ', text)
RemoveSpecial(text) == [i \in DOMAIN text |-> PunctToSpace(text[i])]

\* re.sub(r'\s+', ' ', text): every maximal run of whitespace becomes one
\* space (its last character is replaced, the ones before it are dropped)
CollapseSpaces(s) ==
    LET Kept(c) == c # ""
        marked == [i \in DOMAIN s |->
                     IF ~IsSpace(s[i]) THEN s[i]
                     ELSE IF i < Len(s) /\ IsSpace(s[i + 1]) THEN "" ELSE " "]
    IN  SelectSeq(marked, Kept)

\* str.strip()
Strip(s) ==
    IF \A i \in DOMAIN s : IsSpace(s[i]) THEN <<>>
    ELSE LET first == CHOOSE i \in DOMAIN s :
                         ~IsSpace(s[i]) /\ \A k \in 1..(i - 1) : IsSpace(s[k])
             last == CHOOSE i \in DOMAIN s :
                         ~IsSpace(s[i]) /\ \A k \in (i + 1)..Len(s) : IsSpace(s[k])
         IN  SubSeq(s, first, last)

normalize_text(text) ==
    IF text = <<>> THEN <<>>
    ELSE Strip(CollapseSpaces(RemoveSpecial(RemoveAccents(Lower(text)))))

(***************************************************************************)
(* difflib.SequenceMatcher(None, a, b).ratio(): no junk function, autojunk *)
(* left at its default.  Indices are Python's (0-based, half-open ranges). *)
(***************************************************************************)
\* the length of b from which SequenceMatcher applies its popularity heuristic
AutoJunkLen == 200

\* the elements of b that the heuristic drops from the index: those that
\* occur more than len(b) // 100 + 1 times in a b of AutoJunkLen or more
Popular(b) ==
    IF Len(b) >= AutoJunkLen
    THEN {c \in Range(b) :
            Cardinality({j \in DOMAIN b : b[j] = c}) > (Len(b) \div 100) + 1}
    ELSE {}

\* b2j: the positions of each element of b, the popular elements left out
B2J(b) ==
    [c \in Range(b) \ Popular(b) |-> {j \in 0..(Len(b) - 1) : b[j + 1] = c}]

\* the length of the run of equal elements from a[i], b[j] forwards
RunLen(a, b, i, j, ahi, bhi) ==
    LET max == IF ahi - i < bhi - j THEN ahi - i ELSE bhi - j
    IN  IF max <= 0 THEN 0
        ELSE CHOOSE n \in 0..max :
                /\ n = max \/ a[i + n + 1] # b[j + n + 1]
                /\ \A t \in 0..(n - 1) : a[i + t + 1] = b[j + t + 1]

\* the length of the run of equal elements before a[i], b[j] backwards
RunBack(a, b, i, j, alo, blo) ==
    LET max == IF i - alo < j - blo THEN i - alo ELSE j - blo
    IN  IF max <= 0 THEN 0
        ELSE CHOOSE n \in 0..max :
                /\ n = max \/ a[i - n] # b[j - n]
                /\ \A t \in 0..(n - 1) : a[i - t] = b[j - t]

\* the length of the run of equal indexed elements from a[i], b[j] (what
\* j2len counts: a run ends at an element b2j does not hold)
IndexedRun(a, b, b2j, i, j, ahi, bhi) ==
    LET max == IF ahi - i < bhi - j THEN ahi - i ELSE bhi - j
    IN  IF max <= 0 THEN 0
        ELSE CHOOSE n \in 0..max :
                /\ \/ n = max
                   \/ a[i + n + 1] # b[j + n + 1]
                   \/ b[j + n + 1] \notin DOMAIN b2j
                /\ \A t \in 0..(n - 1) :
                      a[i + t + 1] = b[j + t + 1] /\ b[j + t + 1] \in DOMAIN b2j

\* the scan of find_longest_match over the rows lo..hi-1 of a[alo:ahi], and
\* in a row i over the j of b2j[a[i]] in blo..bhi-1 in ascending order: a
\* later block replaces an earlier one only when it is longer (if k >
\* bestsize).  The rows are halved so that the depth of the recursion stays
\* logarithmic.
RECURSIVE ScanBlocks(_, _, _, _, _, _, _, _, _)
ScanBlocks(a, b, b2j, alo, ahi, blo, bhi, lo, hi) ==
    IF hi - lo > 1
    THEN LET mid == (lo + hi) \div 2
             first == ScanBlocks(a, b, b2j, alo, ahi, blo, bhi, lo, mid)
             second == ScanBlocks(a, b, b2j, alo, ahi, blo, bhi, mid, hi)
         IN  IF second[3] > first[3] THEN second ELSE first
    ELSE LET i == lo
             J == IF a[i + 1] \in DOMAIN b2j
                  THEN {j \in b2j[a[i + 1]] : blo <= j /\ j < bhi}
                  ELSE {}
             k == [j \in J |-> IndexedRun(a, b, b2j, i, j, ahi, bhi)]
         IN  IF J = {} THEN <<alo, blo, 0>>
             ELSE LET j == CHOOSE x \in J :
                              \A y \in J : k[x] > k[y] \/ (k[x] = k[y] /\ x <= y)
                  IN  <<i, j, k[j]>>

\* the block best extended backwards by equal elements (while besti > alo
\* and bestj > blo and a[besti-1] == b[bestj-1])
ExtendBack(a, b, alo, blo, best) ==
    LET back == RunBack(a, b, best[1], best[2], alo, blo)
    IN  <<best[1] - back, best[2] - back, best[3] + back>>

\* the block best extended forwards by equal elements
ExtendForward(a, b, ahi, bhi, best) ==
    <<best[1], best[2],
      best[3] + RunLen(a, b, best[1] + best[3], best[2] + best[3], ahi, bhi)>>

\* the block found with no extension of it over the elements b2j leaves out
find_longest_match_NoExtend(a, b, b2j, alo, ahi, blo, bhi) ==
    IF alo >= ahi \/ blo >= bhi THEN <<alo, blo, 0>>
    ELSE ScanBlocks(a, b, b2j, alo, ahi, blo, bhi, alo, ahi)

\* the longest block of indexed elements in a[alo:ahi], b[blo:bhi] (of the
\* longest ones the one starting earliest in a, and of those the one
\* earliest in b), then extended on both ends by equal elements
find_longest_match(a, b, b2j, alo, ahi, blo, bhi) ==
    IF alo >= ahi \/ blo >= bhi THEN <<alo, blo, 0>>
    ELSE ExtendForward(a, b, ahi, bhi,
            ExtendBack(a, b, alo, blo,
               ScanBlocks(a, b, b2j, alo, ahi, blo, bhi, alo, ahi)))

\* sum of the sizes of get_matching_blocks(): the longest block, then the
\* same to its left and to its right
RECURSIVE MatchTotal(_, _, _, _, _, _, _)
MatchTotal(a, b, b2j, alo, ahi, blo, bhi) ==
    LET m == find_longest_match(a, b, b2j, alo, ahi, blo, bhi)
    IN  IF m[3] = 0 THEN 0
        ELSE m[3]
             + (IF alo < m[1] /\ blo < m[2]
                THEN MatchTotal(a, b, b2j, alo, m[1], blo, m[2]) ELSE 0)
             + (IF m[1] + m[3] < ahi /\ m[2] + m[3] < bhi
                THEN MatchTotal(a, b, b2j, m[1] + m[3], ahi, m[2] + m[3], bhi) ELSE 0)

\* M: the total size of the matching blocks of a and b
MatchSize(a, b) == MatchTotal(a, b, B2J(b), 0, Len(a), 0, Len(b))

\* a ratio that is M / length
ratio_Half(a, b) ==
    IF Len(a) + Len(b) = 0 THEN <<1, 1>>
    ELSE <<MatchSize(a, b), Len(a) + Len(b)>>

\* _calculate_ratio: 2.0 * matches / length, and 1.0 when length is 0
ratio(a, b) ==
    IF Len(a) + Len(b) = 0 THEN <<1, 1>>
    ELSE <<2 * MatchSize(a, b), Len(a) + Len(b)>>

\* comparison of two rationals with positive denominators
Geq(x, y) == x[1] * y[2] >= y[1] * x[2]
RatEq(x, y) == x[1] * y[2] = y[1] * x[2]

\* calculate_similarity with no test of the raw texts
calculate_similarity_NoEmptyCheck(text1, text2) ==
    ratio(normalize_text(text1), normalize_text(text2))

calculate_similarity(text1, text2) ==
    IF text1 = <<>> \/ text2 = <<>> THEN <<0, 1>>
    ELSE ratio(normalize_text(text1), normalize_text(text2))

(***************************************************************************)
(* Product records.  A key the dict does not hold is NoKey; None is the    *)
(* empty tuple; None and {} as a product are NoProduct.                    *)
(***************************************************************************)
NoKey == <<"<missing>">>
NoPlatform == "<missing>"
None == <<>>

Product(platform, name, price) ==
    [platform |-> platform, name |-> name, price |-> price, numeric_price |-> NoKey]

NoProduct == Product(NoPlatform, NoKey, NoKey)

\* a value of the wrong type where a string is expected: a truthy value that
\* is no str, such as the int 5
WrongType == <<"<not a str>">>
\* an item that is no dict where a product is expected: a truthy value
\* without .get, such as a non-empty str
NotADict == <<"<not a dict>">>
NonRecord == Product(NoPlatform, NotADict, NotADict)

\* product.get('name', '')
GetName(product) == IF product.name = NoKey THEN <<>> ELSE product.name
\* product.get('platform', '')
GetPlatform(product) == IF product.platform = NoPlatform THEN "" ELSE product.platform

DefaultThreshold == <<7, 10>>

\* text.lower() raises AttributeError
normalize_text_raises(text) == text = WrongType

\* both texts pass the emptiness test and one of them fails in normalize_text
calculate_similarity_raises(text1, text2) ==
    /\ text1 # <<>>
    /\ text2 # <<>>
    /\ normalize_text_raises(text1) \/ normalize_text_raises(text2)

\* both products are truthy, and product.get or calculate_similarity raises
is_same_product_raises(product1, product2) ==
    /\ product1 # NoProduct
    /\ product2 # NoProduct
    /\ \/ product1 = NonRecord
       \/ product2 = NonRecord
       \/ calculate_similarity_raises(GetName(product1), GetName(product2))

\* is_same_product with a strict comparison
is_same_product_Strict(product1, product2, threshold) ==
    IF product1 = NoProduct \/ product2 = NoProduct THEN FALSE
    ELSE ~Geq(threshold, calculate_similarity(GetName(product1), GetName(product2)))

is_same_product(product1, product2, threshold) ==
    IF product1 = NoProduct \/ product2 = NoProduct THEN FALSE
    ELSE LET name1 == GetName(product1)
             name2 == GetName(product2)
             similarity == calculate_similarity(name1, name2)
         IN  Geq(similarity, threshold)

(***************************************************************************)
(* extract_numeric_price.  The float it returns is the exact rational      *)
(* <<numerator, denominator>> in lowest terms.                             *)
(***************************************************************************)
PriceNotAvailable ==
    <<"P","r","i","c","e"," ","n","o","t"," ","a","v","a","i","l","a","b","l","e">>

\* a replace that leaves the commas
ReplaceComma_Keep(s) == s

\* price_str.replace(',', '.')
ReplaceComma(s) == [i \in DOMAIN s |-> IF s[i] = "," THEN "." ELSE s[i]]

\* length of the maximal run of digits of s that starts at position i
RECURSIVE DigitRun(_, _)
DigitRun(s, i) ==
    IF i <= Len(s) /\ IsDigit(s[i]) THEN 1 + DigitRun(s, i + 1) ELSE 0

\* re.findall(r'\d+\.\d+|\d+', s)[0] for an s that holds a digit: the leftmost
\* match; digits.digits is preferred over digits
FirstNumber(s) ==
    LET p == CHOOSE i \in DOMAIN s :
                 IsDigit(s[i]) /\ \A k \in 1..(i - 1) : ~IsDigit(s[k])
        n1 == DigitRun(s, p)
        n2 == IF p + n1 <= Len(s) /\ s[p + n1] = "." THEN DigitRun(s, p + n1 + 1) ELSE 0
    IN  IF n2 > 0 THEN SubSeq(s, p, p + n1 + n2) ELSE SubSeq(s, p, p + n1 - 1)

DigitValue(c) == (CHOOSE i \in DOMAIN DigitChars : DigitChars[i] = c) - 1

RECURSIVE DigitsValue(_)
DigitsValue(ds) ==
    IF ds = <<>> THEN 0
    ELSE 10 * DigitsValue(SubSeq(ds, 1, Len(ds) - 1)) + DigitValue(ds[Len(ds)])

RECURSIVE Pow10(_)
Pow10(n) == IF n = 0 THEN 1 ELSE 10 * Pow10(n - 1)

RECURSIVE Gcd(_, _)
Gcd(m, n) == IF n = 0 THEN m ELSE Gcd(n, m % n)

\* float(token) for a token of the form digits or digits.digits
Float(token) ==
    LET digits == SelectSeq(token, IsDigit)
        dot == IF \E i \in DOMAIN token : token[i] = "."
               THEN CHOOSE i \in DOMAIN token : token[i] = "."
               ELSE Len(token) + 1
        num == DigitsValue(digits)
        den == Pow10(IF dot > Len(token) THEN 0 ELSE Len(token) - dot)
        g == Gcd(den, num)
    IN  <<num \div g, den \div g>>

\* extract_numeric_price that returns None for a price of 0
extract_numeric_price_ZeroAbsent(price_str) ==
    IF price_str = None \/ price_str = <<>> \/ price_str = PriceNotAvailable
    THEN None
    ELSE LET replaced == ReplaceComma(price_str)
         IN  IF \E i \in DOMAIN replaced : IsDigit(replaced[i])
             THEN LET value == Float(FirstNumber(replaced))
                  IN  IF value[1] = 0 THEN None ELSE value
             ELSE None

extract_numeric_price(price_str) ==
    IF price_str = None \/ price_str = <<>> \/ price_str = PriceNotAvailable
    THEN None
    ELSE LET replaced == ReplaceComma(price_str)
         IN  IF \E i \in DOMAIN replaced : IsDigit(replaced[i])
             THEN Float(FirstNumber(replaced))
             ELSE None

\* price_str.replace raises AttributeError: the value is truthy, differs from
\* 'Price not available' and is no str
extract_numeric_price_raises(price_str) == price_str = WrongType

(***************************************************************************)
(* compare_prices.  The products are dicts the caller shares: h is the     *)
(* heap, products a list of object ids.  The result is the heap after the  *)
(* call and the list returned.                                             *)
(***************************************************************************)
\* product.get('price', 'Price not available')
GetPrice(product) == IF product.price = NoKey THEN PriceNotAvailable ELSE product.price

\* FilterPriced that tests the price for truth, not for None
RECURSIVE FilterPriced_Truthy(_, _, _, _)
FilterPriced_Truthy(h, products, i, products_with_price) ==
    IF i > Len(products)
    THEN [heap |-> h, products_with_price |-> products_with_price]
    ELSE LET product == products[i]
             numeric_price == extract_numeric_price(GetPrice(h[product]))
         IN  IF numeric_price # None /\ numeric_price[1] # 0
             THEN FilterPriced_Truthy([h EXCEPT ![product].numeric_price = numeric_price],
                                      products, i + 1, Append(products_with_price, product))
             ELSE FilterPriced_Truthy(h, products, i + 1, products_with_price)

\* FilterPriced that passes over a product that has its numeric_price
RECURSIVE FilterPriced_SkipsRanked(_, _, _, _)
FilterPriced_SkipsRanked(h, products, i, products_with_price) ==
    IF i > Len(products)
    THEN [heap |-> h, products_with_price |-> products_with_price]
    ELSE LET product == products[i]
             numeric_price == extract_numeric_price(GetPrice(h[product]))
         IN  IF numeric_price # None /\ h[product].numeric_price = NoKey
             THEN FilterPriced_SkipsRanked([h EXCEPT ![product].numeric_price = numeric_price],
                                           products, i + 1, Append(products_with_price, product))
             ELSE FilterPriced_SkipsRanked(h, products, i + 1, products_with_price)

\* the for loop of compare_prices from position i on
RECURSIVE FilterPriced(_, _, _, _)
FilterPriced(h, products, i, products_with_price) ==
    IF i > Len(products)
    THEN [heap |-> h, products_with_price |-> products_with_price]
    ELSE LET product == products[i]
             numeric_price == extract_numeric_price(GetPrice(h[product]))
         IN  IF numeric_price # None
             THEN FilterPriced([h EXCEPT ![product].numeric_price = numeric_price],
                               products, i + 1, Append(products_with_price, product))
             ELSE FilterPriced(h, products, i + 1, products_with_price)

\* x <= y on two floats
Leq(x, y) == x[1] * y[2] <= y[1] * x[2]

\* a sort that is not stable: an item goes before the items of its own key
RECURSIVE Sorted_Unstable(_, _)
Sorted_Unstable(h, items) ==
    IF items = <<>> THEN <<>>
    ELSE LET init == Sorted_Unstable(h, SubSeq(items, 1, Len(items) - 1))
             x == items[Len(items)]
             k == Cardinality({i \in DOMAIN init :
                      ~Leq(h[x].numeric_price, h[init[i]].numeric_price)})
         IN  SubSeq(init, 1, k) \o <<x>> \o SubSeq(init, k + 1, Len(init))

\* a sort in descending order of the key
RECURSIVE Sorted_Descending(_, _)
Sorted_Descending(h, items) ==
    IF items = <<>> THEN <<>>
    ELSE LET init == Sorted_Descending(h, SubSeq(items, 1, Len(items) - 1))
             x == items[Len(items)]
             k == Cardinality({i \in DOMAIN init :
                      Leq(h[x].numeric_price, h[init[i]].numeric_price)})
         IN  SubSeq(init, 1, k) \o <<x>> \o SubSeq(init, k + 1, Len(init))

\* sorted(items, key=lambda x: x['numeric_price']): a stable sort, here by
\* inserting each item after the items whose key is not greater
RECURSIVE Sorted(_, _)
Sorted(h, items) ==
    IF items = <<>> THEN <<>>
    ELSE LET init == Sorted(h, SubSeq(items, 1, Len(items) - 1))
             x == items[Len(items)]
             k == Cardinality({i \in DOMAIN init :
                      Leq(h[init[i]].numeric_price, h[x].numeric_price)})
         IN  SubSeq(init, 1, k) \o <<x>> \o SubSeq(init, k + 1, Len(init))

compare_prices(h, products) ==
    LET filtered == FilterPriced(h, products, 1, <<>>)
    IN  [heap |-> filtered.heap,
         sorted_products |-> Sorted(filtered.heap, filtered.products_with_price)]

\* product.get or extract_numeric_price raises at this product
compare_prices_raises_at(h, product) ==
    \/ h[product] = NonRecord
    \/ extract_numeric_price_raises(GetPrice(h[product]))

\* compare_prices raises: there is no try/except around its loop
compare_prices_raises(h, products) ==
    \E i \in DOMAIN products : compare_prices_raises_at(h, products[i])

(***************************************************************************)
(* find_similar_products: the candidates that are the same product as the  *)
(* source, in candidate order.                                             *)
(***************************************************************************)
\* find_similar_products that keeps every candidate
find_similar_products_NoFilter(h, source, candidate_products, threshold) ==
    candidate_products

\* find_similar_products that keeps a matching candidate once only
RECURSIVE find_similar_products_Distinct(_, _, _, _)
find_similar_products_Distinct(h, source, candidate_products, threshold) ==
    IF candidate_products = <<>> THEN <<>>
    ELSE LET product == Head(candidate_products)
             Other(x) == x # product
         IN  (IF is_same_product(h[source], h[product], threshold)
              THEN <<product>> ELSE <<>>)
             \o SelectSeq(find_similar_products_Distinct(h, source,
                              Tail(candidate_products), threshold), Other)

RECURSIVE find_similar_products(_, _, _, _)
find_similar_products(h, source, candidate_products, threshold) ==
    IF candidate_products = <<>> THEN <<>>
    ELSE LET product == Head(candidate_products)
         IN  (IF is_same_product(h[source], h[product], threshold)
              THEN <<product>> ELSE <<>>)
             \o find_similar_products(h, source, Tail(candidate_products), threshold)

\* find_similar_products raises: is_same_product raises at a candidate, and
\* the list built so far is lost with the frame
find_similar_products_raises(h, source, candidate_products) ==
    \E i \in DOMAIN candidate_products :
        is_same_product_raises(h[source], h[candidate_products[i]])

(***************************************************************************)
(* Inputs of the similarity evaluations.                                   *)
(***************************************************************************)
SimAlphabet == {"a", "b"}

SeqsUpTo(S, n) == UNION {[1..k -> S] : k \in 0..n}

\* names with punctuation, capitals and characters of a non-Latin script
SimSpecialNames ==
    {<<"!">>, <<"U+0639", "U+0639">>, <<"a", "!", "b">>, <<"A", "b">>}

SimNames == SeqsUpTo(SimAlphabet, MaxNameLen) \cup SimSpecialNames

\* a named product, a product with no 'name' key, and None / {}
SimProducts ==
    {Product("noon", n, NoKey) : n \in SimNames}
        \cup {Product("noon", NoKey, NoKey), NoProduct}

\* names of AutoJunkLen characters: 'aaa...', 'aaa...b...aaa', 'abab...'
LongA == [i \in 1..AutoJunkLen |-> "a"]
LongAB == [i \in 1..AutoJunkLen |-> IF 2 * i = AutoJunkLen + 2 THEN "b" ELSE "a"]
LongABAB == [i \in 1..AutoJunkLen |-> IF i % 2 = 0 THEN "b" ELSE "a"]
LongNames == {LongA, LongAB, LongABAB}

\* two names of ten characters that share their first seven
TenA == <<"a","b","c","d","e","f","g","h","i","j">>
TenB == <<"a","b","c","d","e","f","g","x","y","z">>

SimPairs ==
    (SimProducts \X SimProducts)
        \cup {<<Product("noon", m, NoKey), Product("amazon", n, NoKey)>> :
                 m \in LongNames, n \in LongNames}
        \cup {<<Product("noon", TenA, NoKey), Product("amazon", TenB, NoKey)>>}

Thresholds == {DefaultThreshold, <<1, 2>>}

Idle == [phase |-> "idle"]

(***************************************************************************)
(* SpecSim: calculate_similarity and is_same_product on a pair of          *)
(* products, evaluated in both argument orders.                            *)
(***************************************************************************)
SimInit ==
    /\ \E pair \in SimPairs, threshold \in Thresholds :
          sim = [phase |-> "input", p1 |-> pair[1], p2 |-> pair[2],
                 threshold |-> threshold, fwd |-> None, bwd |-> None,
                 same12 |-> FALSE, same21 |-> FALSE, same_default |-> FALSE]
    /\ pc = "idle" /\ heap = <<>> /\ scrapers = <<>> /\ idx = 0
    /\ similar_products = <<>> /\ calls = <<>> /\ returned = <<>>
    /\ sorted_products = <<>> /\ rank = Idle /\ call = Idle

SimScore ==
    /\ sim.phase = "input"
    /\ sim' = [sim EXCEPT !.phase = "scored",
                          !.fwd = calculate_similarity(GetName(sim.p1), GetName(sim.p2)),
                          !.bwd = calculate_similarity(GetName(sim.p2), GetName(sim.p1))]
    /\ UNCHANGED <<pc, heap, scrapers, idx, similar_products, calls, returned,
                   sorted_products, rank, call>>

\* is_same_product(p1, p2, threshold), the same with the arguments swapped,
\* and is_same_product(p1, p2) with the threshold left at its default
SimDecide ==
    /\ sim.phase = "scored"
    /\ sim' = [sim EXCEPT !.phase = "decided",
                          !.same12 = is_same_product(sim.p1, sim.p2, sim.threshold),
                          !.same21 = is_same_product(sim.p2, sim.p1, sim.threshold),
                          !.same_default = is_same_product(sim.p1, sim.p2, DefaultThreshold)]
    /\ UNCHANGED <<pc, heap, scrapers, idx, similar_products, calls, returned,
                   sorted_products, rank, call>>

SimNext == SimScore \/ SimDecide

SpecSim == SimInit /\ [][SimNext]_vars

\* C10: is_same_product and calculate_similarity give the same answer in
\* both argument orders, for every pair of products and every threshold.
C10_Symmetric ==
    /\ sim.phase \in {"scored", "decided"} => RatEq(sim.fwd, sim.bwd)
    /\ sim.phase = "decided" => sim.same12 = sim.same21

Scored == sim.phase \in {"scored", "decided"}
Norm1 == normalize_text(GetName(sim.p1))
Norm2 == normalize_text(GetName(sim.p2))
Shorter == IF Len(Norm1) < Len(Norm2) THEN Len(Norm1) ELSE Len(Norm2)

\* C11: the similarity of a non-empty name with itself is 1.0, also for a
\* name of 200 characters or more and for a name that normalizes to the
\* empty string.
C11_SelfSimilarityOne ==
    (Scored /\ GetName(sim.p1) # <<>> /\ GetName(sim.p2) = GetName(sim.p1))
        => RatEq(sim.fwd, <<1, 1>>)

\* a name of 200 characters, all of them popular, scored against itself
C11_Witness ==
    /\ Scored
    /\ GetName(sim.p2) = GetName(sim.p1)
    /\ Len(Norm1) >= 200
    /\ Popular(Norm1) = Range(Norm1)
    /\ RatEq(sim.fwd, <<1, 1>>)

\* C12: two different non-empty names whose normalized forms have no
\* character in common score 0.0, and are not the same product; this
\* includes two names that both normalize to the empty string.
C12_NoCommonCharZero ==
    (Scored /\ GetName(sim.p1) # <<>> /\ GetName(sim.p2) # <<>>
            /\ GetName(sim.p1) # GetName(sim.p2)
            /\ Range(Norm1) \cap Range(Norm2) = {})
        => /\ RatEq(sim.fwd, <<0, 1>>)
           /\ sim.phase = "decided" => ~sim.same12 /\ ~sim.same_default

\* C13: the similarity is 0 when either raw name is empty or missing, also
\* when both are, and such a pair is not the same product at a threshold
\* above 0.
C13_EmptyNameZero ==
    (Scored /\ (GetName(sim.p1) = <<>> \/ GetName(sim.p2) = <<>>))
        => /\ sim.fwd = <<0, 1>>
           /\ sim.phase = "decided" => ~sim.same12 /\ ~sim.same_default

\* two products that are there and whose names are both empty or missing
C13_Witness ==
    /\ sim.phase = "decided"
    /\ sim.p1 # NoProduct /\ sim.p2 # NoProduct
    /\ GetName(sim.p1) = <<>> /\ GetName(sim.p2) = <<>>
    /\ sim.fwd = <<0, 1>>
    /\ ~sim.same12

\* C14 as stated: for every pair of names the score s is in 0..1 and is
\* 2*M / (len(norm_a) + len(norm_b)), M the total size of the matching
\* blocks of the normalized names, and M is at most the shorter length.
C14_AlwaysRatio ==
    Scored =>
        LET M == MatchSize(Norm1, Norm2)
            length == Len(Norm1) + Len(Norm2)
        IN  /\ Geq(sim.fwd, <<0, 1>>) /\ Geq(<<1, 1>>, sim.fwd)
            /\ M <= Shorter
            /\ length > 0
            /\ sim.fwd[1] * length = 2 * M * sim.fwd[2]

\* C14: the score s is in 0..1 and M is at most the shorter normalized
\* length; s is 2*M / (len(norm_a) + len(norm_b)) when that sum is not 0;
\* when both normalized names are empty s is 0 if a raw name is empty and
\* 1.0 otherwise.
C14_RatioWhereDefined ==
    Scored =>
        LET M == MatchSize(Norm1, Norm2)
            length == Len(Norm1) + Len(Norm2)
        IN  /\ Geq(sim.fwd, <<0, 1>>) /\ Geq(<<1, 1>>, sim.fwd)
            /\ M <= Shorter
            /\ length > 0 => sim.fwd[1] * length = 2 * M * sim.fwd[2]
            /\ length = 0 =>
                  sim.fwd = IF GetName(sim.p1) = <<>> \/ GetName(sim.p2) = <<>>
                            THEN <<0, 1>> ELSE <<1, 1>>

\* two names matched in part, in more than one block
C14_Witness ==
    /\ Scored
    /\ Len(Norm1) = 4 /\ Len(Norm2) = 4
    /\ MatchSize(Norm1, Norm2) = 3
    /\ sim.fwd = <<6, 8>>

\* C15: is_same_product is false when a product is None or {}; otherwise it
\* is true exactly when the similarity of the names is >= the threshold
\* (a score equal to the threshold matches), and the threshold is 0.7 when
\* none is given.
C15_SameProductRule ==
    sim.phase = "decided" =>
        LET present == sim.p1 # NoProduct /\ sim.p2 # NoProduct
        IN  /\ sim.same12 = (present /\ Geq(sim.fwd, sim.threshold))
            /\ sim.same_default = (present /\ Geq(sim.fwd, <<7, 10>>))

\* a score of exactly 0.7 at the default threshold
C15_Witness ==
    /\ sim.phase = "decided"
    /\ sim.fwd[1] * 10 = 7 * sim.fwd[2]
    /\ sim.threshold = <<7, 10>>
    /\ sim.same12 /\ sim.same_default

(***************************************************************************)
(* SpecFind: find_similar_products on a source and a list of candidates.   *)
(* The list may hold None and may hold the same dict more than once.       *)
(***************************************************************************)
MaxFindLen == 4

\* the dicts: a source named TenA; candidates that score 0.9, 0.5, 5/7 and
\* 0.7 against it; and None
FindHeap ==
    <<Product("amazon", TenA, NoKey),
      Product("noon", <<"a","b","c","d","e","f","g","h","i","z">>, NoKey),
      Product("noon", <<"a","b","c","d","e","z","y","x","w","v">>, NoKey),
      Product("temu", TenA \o <<"k","l","m","n","o","p","q","r">>, NoKey),
      Product("temu", TenB, NoKey),
      NoProduct>>

FindSources == {1, 6}
FindCandidates == 2..6

FindInit ==
    /\ heap = FindHeap
    /\ call \in [phase : {"input"}, source : FindSources,
                 candidate_products : SeqsUpTo(FindCandidates, MaxFindLen),
                 threshold : Thresholds, result : {<<>>}]
    /\ pc = "idle" /\ scrapers = <<>> /\ idx = 0
    /\ similar_products = <<>> /\ calls = <<>> /\ returned = <<>>
    /\ sorted_products = <<>> /\ sim = Idle /\ rank = Idle

FindCall ==
    /\ call.phase = "input"
    /\ call' = [call EXCEPT !.phase = "found",
                           !.result = find_similar_products(heap, call.source,
                                         call.candidate_products, call.threshold)]
    /\ UNCHANGED <<pc, heap, scrapers, idx, similar_products, calls, returned,
                   sorted_products, sim, rank>>

FindNext == FindCall

SpecFind == FindInit /\ [][FindNext]_vars

FindScore(id) ==
    calculate_similarity(GetName(heap[call.source]), GetName(heap[id]))

\* C16: the result is the candidate list restricted to the candidates that
\* are the same product as the source at the threshold, in the order of the
\* list, a candidate that occurs several times kept as many times.
C16_MatchingSubsequence ==
    call.phase = "found" =>
        LET Same(id) == is_same_product(heap[call.source], heap[id], call.threshold)
        IN  call.result = SelectSeq(call.candidate_products, Same)

\* scores 0.9, 0.5, 5/7 and 0.9 again at threshold 0.7: the 1st, the 3rd and
\* the 4th candidate, in that order
C16_Witness ==
    /\ call.phase = "found"
    /\ call.threshold = <<7, 10>>
    /\ call.candidate_products = <<2, 3, 4, 2>>
    /\ RatEq(FindScore(2), <<9, 10>>)
    /\ RatEq(FindScore(3), <<1, 2>>)
    /\ RatEq(FindScore(4), <<5, 7>>)
    /\ call.result = <<2, 4, 2>>

(***************************************************************************)
(* SpecRank: compare_prices on a list of shared product dicts.  The list   *)
(* may be empty and may hold the same dict more than once.                 *)
(***************************************************************************)
RankPrices ==
    {<<"$","5",".","0","0">>, <<"5">>, <<"1","0">>, <<"0">>, <<"$","0",".","0","0">>,
     PriceNotAvailable, NoKey}

RankProducts == {Product("noon", <<>>, price) : price \in RankPrices}

\* the lists of object ids modelled: the dicts are numbered in the order
\* of their first occurrence in the list
RankLists ==
    {products \in SeqsUpTo(1..MaxProducts, MaxProducts) :
        \A i \in DOMAIN products :
            \/ products[i] = 1
            \/ \E k \in 1..(i - 1) : products[k] = products[i] - 1}

RankInit ==
    /\ \E products \in RankLists :
          /\ heap \in [Range(products) -> RankProducts]
          /\ rank = [phase |-> "input", products |-> products,
                     before |-> heap, result |-> <<>>, again |-> <<>>]
    /\ pc = "idle" /\ scrapers = <<>> /\ idx = 0
    /\ similar_products = <<>> /\ calls = <<>> /\ returned = <<>>
    /\ sorted_products = <<>> /\ sim = Idle /\ call = Idle

RankCall ==
    /\ rank.phase = "input"
    /\ LET r == compare_prices(heap, rank.products)
       IN  /\ heap' = r.heap
           /\ rank' = [rank EXCEPT !.phase = "ranked", !.result = r.sorted_products]
    /\ UNCHANGED <<pc, scrapers, idx, similar_products, calls, returned,
                   sorted_products, sim, call>>

\* compare_prices is called on the list the first call returned
RankAgain ==
    /\ rank.phase = "ranked"
    /\ LET r == compare_prices(heap, rank.result)
       IN  /\ heap' = r.heap
           /\ rank' = [rank EXCEPT !.phase = "reranked", !.again = r.sorted_products]
    /\ UNCHANGED <<pc, scrapers, idx, similar_products, calls, returned,
                   sorted_products, sim, call>>

RankNext ==
    \/ RankCall
    \/ RankAgain

SpecRank == RankInit /\ [][RankNext]_vars

Count(seq, x) == Cardinality({i \in DOMAIN seq : seq[i] = x})

\* the price compare_prices is to extract for a product, from the record as
\* it was handed in
RankKey(id) == extract_numeric_price(GetPrice(rank.before[id]))

\* C7: after compare_prices returns, every record it was given has the
\* fields and values it had before the call.
C7_InputsUnchanged ==
    rank.phase = "ranked" => heap = rank.before

\* C8: the output holds exactly the input products whose price extracts to
\* a number, once per input occurrence, and none whose extraction is absent.
C8_ExactlyPriced ==
    rank.phase = "ranked" =>
        /\ \A id \in DOMAIN heap :
              Count(rank.result, id) =
                 IF RankKey(id) # None THEN Count(rank.products, id) ELSE 0
        /\ \A i \in DOMAIN rank.result : rank.result[i] \in DOMAIN heap
        /\ (\A i \in DOMAIN rank.products : RankKey(rank.products[i]) = None)
              => rank.result = <<>>

C8_Witness ==
    /\ rank.phase = "ranked"
    /\ \E i, j \in DOMAIN rank.products :
          /\ RankKey(rank.products[i]) = None
          /\ RankKey(rank.products[j]) # None
          /\ Count(rank.products, rank.products[j]) = 2
    /\ Len(rank.result) = 2

\* C9: the output is in non-decreasing order of extracted price, and the
\* products of one price keep the relative order they had in the input.
C9_StableAscending ==
    rank.phase = "ranked" =>
        /\ \A i, j \in DOMAIN rank.result :
              i < j => Leq(RankKey(rank.result[i]), RankKey(rank.result[j]))
        /\ \A id \in DOMAIN heap :
              RankKey(id) # None =>
                 LET SamePrice(x) == /\ RankKey(x) # None
                                     /\ RatEq(RankKey(x), RankKey(id))
                 IN  SelectSeq(rank.result, SamePrice)
                        = SelectSeq(rank.products, SamePrice)

\* prices [10, 5, 10] in three distinct records give [5, first 10, second 10]
C9_Witness ==
    /\ rank.phase = "ranked"
    /\ rank.products = <<1, 2, 3>>
    /\ RankKey(1) = <<10, 1>> /\ RankKey(2) = <<5, 1>> /\ RankKey(3) = <<10, 1>>
    /\ rank.result = <<2, 1, 3>>

\* the price strings whose first numeric token is 0
ZeroPrices == {<<"0">>, <<"$","0",".","0","0">>}

\* C26: a product whose price string's first numeric token is 0 is kept in
\* the result, as often as it occurs in the input, with the numeric price 0,
\* and stands before every product of a positive price.
C26_ZeroKept ==
    rank.phase = "ranked" =>
        \A id \in DOMAIN heap :
            GetPrice(rank.before[id]) \in ZeroPrices =>
               /\ Count(rank.result, id) = Count(rank.products, id)
               /\ heap[id].numeric_price = <<0, 1>>
               /\ \A i, j \in DOMAIN rank.result :
                     /\ rank.result[i] = id
                     /\ heap[rank.result[j]].numeric_price[1] > 0
                     => i < j

\* prices ["5", "$0.00", absent, "0"] give the two zero-priced records first
C26_Witness ==
    /\ rank.phase = "ranked"
    /\ rank.products = <<1, 2, 3, 4>>
    /\ GetPrice(rank.before[1]) = <<"5">>
    /\ GetPrice(rank.before[2]) = <<"$","0",".","0","0">>
    /\ GetPrice(rank.before[3]) = PriceNotAvailable
    /\ GetPrice(rank.before[4]) = <<"0">>
    /\ rank.result = <<2, 4, 1>>

\* C27: compare_prices on its own result returns that result again, element
\* for element, and a result holds only products of the input, none more
\* often than the input holds it.
C27_Idempotent ==
    /\ rank.phase = "reranked" => rank.again = rank.result
    /\ rank.phase \in {"ranked", "reranked"} =>
          /\ \A i \in DOMAIN rank.result : rank.result[i] \in Range(rank.products)
          /\ \A id \in DOMAIN heap :
                Count(rank.result, id) <= Count(rank.products, id)

\* the first call reorders and drops, and has attached numeric_price
C27_Witness ==
    /\ rank.phase = "reranked"
    /\ rank.products = <<1, 2, 3, 1>>
    /\ rank.result = <<3, 1, 1>>
    /\ rank.again = <<3, 1, 1>>
    /\ rank.before[1].numeric_price = NoKey
    /\ heap[1].numeric_price # NoKey

(***************************************************************************)
(* Spec: handle_message from the fetched source product on:                *)
(* search_across_platforms, one step per collaborator, then                *)
(* compare_prices.  A collaborator's search either raises or returns a     *)
(* list of fresh product dicts; the data of one collaborator may be        *)
(* malformed, and then the matching or compare_prices may raise.           *)
(***************************************************************************)
nMouse == <<"M","o","u","s","e">>
nMouseBang == <<"m","o","u","s","e","!">>      \* normalizes like nMouse
nMouse2 == <<"M","o","u","s","e"," ","2">>     \* similarity 10/11
nMop == <<"M","o","p">>                        \* similarity 1/2

\* object id of the source product (product_details of handle_message)
source_product == 1

\* the worked example: the source and what noon and temu return for it
nWireless == <<"W","i","r","e","l","e","s","s"," ","M","o","u","s","e"," ","X","2","0","0">>
nWirelessBlack == <<"W","i","r","e","l","e","s","s"," ","M","o","u","s","e"," ","X","2","0","0"," ","B","l","a","c","k">>
nDifferent == <<"T","o","t","a","l","l","y"," ","D","i","f","f","e","r","e","n","t"," ","I","t","e","m">>

ExampleSource == Product("amazon", nWireless, <<"$","2","5",".","0","0">>)

ExampleResults(platform) ==
    IF platform = "noon" THEN <<Product("noon", nWirelessBlack, <<"9","0"," ","S","A","R">>)>>
    ELSE IF platform = "temu" THEN <<Product("temu", nDifferent, <<"$","3",".","0","0">>)>>
    ELSE <<>>

Sources ==
    {Product("amazon", nMouse, <<"$","5",".","0","0">>),
     Product("noon", nMouse, NoKey),
     Product(NoPlatform, nMouse, <<"$","5",".","0","0">>),
     Product("amazon", <<>>, <<"$","5",".","0","0">>),
     Product("temu", NoKey, PriceNotAvailable),
     ExampleSource}

\* key orders of the collaborator mapping
Mappings == {<<"amazon", "aliexpress", "noon", "temu">>, <<"temu", "amazon">>}

\* what a collaborator may list: <<name, price>>
Catalog ==
    {<<nMouseBang, <<"5">>>>,
     <<nMouse2, PriceNotAvailable>>,
     <<nMop, <<"$","3">>>>}

\* what the collaborator with malformed data may list besides: a record whose
\* name is no string, a record whose price is no string, an item that is no
\* record
Malformed ==
    {<<WrongType, <<"5">>>>,
     <<nMouseBang, WrongType>>,
     <<NotADict, NotADict>>}

\* the entries the platform's collaborator lists from
Listing(platform) ==
    IF platform = "noon" THEN Catalog \cup Malformed ELSE Catalog

\* the dict or item a collaborator lists for a catalog entry
Listed(platform, item) ==
    IF item[1] = NotADict THEN NonRecord ELSE Product(platform, item[1], item[2])

\* the lists search_product of the platform's collaborator may return
ResultLists(platform) ==
    IF heap[source_product] = ExampleSource
    THEN {ExampleResults(platform)}
    ELSE {[i \in DOMAIN items |-> Listed(platform, items[i])] :
             items \in SeqsUpTo(Listing(platform), MaxResults)}

Init ==
    /\ pc = "fetched"
    /\ \E source \in Sources : heap = <<source>>
    /\ scrapers \in Mappings
    /\ idx = 0
    /\ similar_products = <<>>
    /\ calls = <<>>
    /\ returned = <<>>
    /\ sorted_products = <<>>
    /\ sim = Idle
    /\ rank = Idle
    /\ call = Idle

\* SearchBegin without the early return on an empty name
SearchBegin_NoEmptyCheck ==
    /\ pc = "fetched"
    /\ similar_products' = <<source_product>>
    /\ pc' = "loop" /\ idx' = 1
    /\ UNCHANGED <<heap, scrapers, calls, returned, sorted_products, sim, rank, call>>

\* search_across_platforms up to the loop: the source goes first, and an
\* empty name returns at once
SearchBegin ==
    /\ pc = "fetched"
    /\ similar_products' = <<source_product>>
    /\ IF GetName(heap[source_product]) = <<>>
       THEN pc' = "searched" /\ idx' = idx
       ELSE pc' = "loop" /\ idx' = 1
    /\ UNCHANGED <<heap, scrapers, calls, returned, sorted_products, sim, rank, call>>

\* if platform == source_platform: continue
SkipSource ==
    /\ pc = "loop"
    /\ idx <= Len(scrapers)
    /\ scrapers[idx] = GetPlatform(heap[source_product])
    /\ idx' = idx + 1
    /\ UNCHANGED <<pc, heap, scrapers, similar_products, calls, returned,
                   sorted_products, sim, rank, call>>

\* CallSearch without the test that skips the source platform
CallSearch_SourceToo ==
    /\ pc = "loop"
    /\ idx <= Len(scrapers)
    /\ calls' = Append(calls, [platform |-> scrapers[idx],
                               query |-> GetName(heap[source_product])])
    /\ pc' = "pending"
    /\ UNCHANGED <<heap, scrapers, idx, similar_products, returned,
                   sorted_products, sim, rank, call>>

\* scraper.search_product(search_query) is invoked
CallSearch ==
    /\ pc = "loop"
    /\ idx <= Len(scrapers)
    /\ scrapers[idx] # GetPlatform(heap[source_product])
    /\ calls' = Append(calls, [platform |-> scrapers[idx],
                               query |-> GetName(heap[source_product])])
    /\ pc' = "pending"
    /\ UNCHANGED <<heap, scrapers, idx, similar_products, returned,
                   sorted_products, sim, rank, call>>

\* SearchReturns that assigns the platform's matches instead of extending
SearchReturns_Assign ==
    /\ pc = "pending"
    /\ \E search_results \in ResultLists(scrapers[idx]) :
          /\ Len(heap) + Len(search_results) <= 1 + MaxCandidates
          /\ LET ids == [i \in DOMAIN search_results |-> Len(heap) + i]
                 h == heap \o search_results
                 platform_similar_products ==
                     find_similar_products(h, source_product, ids, DefaultThreshold)
             IN  /\ ~find_similar_products_raises(h, source_product, ids)
                 /\ heap' = h
                 /\ similar_products' = platform_similar_products
                 /\ returned' = Append(returned, [platform |-> scrapers[idx],
                                                  raised |-> FALSE, results |-> ids,
                                                  discarded |-> <<>>])
    /\ idx' = idx + 1
    /\ pc' = "loop"
    /\ UNCHANGED <<scrapers, calls, sorted_products, sim, rank, call>>

\* SearchReturns that puts the platform's matches right after the source
SearchReturns_Front ==
    /\ pc = "pending"
    /\ \E search_results \in ResultLists(scrapers[idx]) :
          /\ Len(heap) + Len(search_results) <= 1 + MaxCandidates
          /\ LET ids == [i \in DOMAIN search_results |-> Len(heap) + i]
                 h == heap \o search_results
                 platform_similar_products ==
                     find_similar_products(h, source_product, ids, DefaultThreshold)
             IN  /\ ~find_similar_products_raises(h, source_product, ids)
                 /\ heap' = h
                 /\ similar_products' = <<Head(similar_products)>>
                                           \o platform_similar_products
                                           \o Tail(similar_products)
                 /\ returned' = Append(returned, [platform |-> scrapers[idx],
                                                  raised |-> FALSE, results |-> ids,
                                                  discarded |-> <<>>])
    /\ idx' = idx + 1
    /\ pc' = "loop"
    /\ UNCHANGED <<scrapers, calls, sorted_products, sim, rank, call>>

\* the search returns a list: its similar products extend the aggregate
SearchReturns ==
    /\ pc = "pending"
    /\ \E search_results \in ResultLists(scrapers[idx]) :
          /\ Len(heap) + Len(search_results) <= 1 + MaxCandidates
          /\ LET ids == [i \in DOMAIN search_results |-> Len(heap) + i]
                 h == heap \o search_results
                 platform_similar_products ==
                     find_similar_products(h, source_product, ids, DefaultThreshold)
             IN  /\ ~find_similar_products_raises(h, source_product, ids)
                 /\ heap' = h
                 /\ similar_products' = similar_products \o platform_similar_products
                 /\ returned' = Append(returned, [platform |-> scrapers[idx],
                                                  raised |-> FALSE, results |-> ids,
                                                  discarded |-> <<>>])
    /\ idx' = idx + 1
    /\ pc' = "loop"
    /\ UNCHANGED <<scrapers, calls, sorted_products, sim, rank, call>>

\* SearchRaises with no try/except: the exception leaves the function
SearchRaises_Propagates ==
    /\ pc = "pending"
    /\ returned' = Append(returned, [platform |-> scrapers[idx],
                                     raised |-> TRUE, results |-> <<>>,
                                     discarded |-> <<>>])
    /\ pc' = "raised"
    /\ UNCHANGED <<heap, scrapers, idx, similar_products, calls, sorted_products,
                   sim, rank, call>>

\* the search raises: except Exception logs it and the loop goes on
SearchRaises ==
    /\ pc = "pending"
    /\ returned' = Append(returned, [platform |-> scrapers[idx],
                                     raised |-> TRUE, results |-> <<>>,
                                     discarded |-> <<>>])
    /\ idx' = idx + 1
    /\ pc' = "loop"
    /\ UNCHANGED <<heap, scrapers, similar_products, calls, sorted_products, sim, rank, call>>

\* FirstRaising: the position in ids of the first candidate at which
\* is_same_product raises
FirstRaising(h, ids) ==
    CHOOSE k \in DOMAIN ids :
        /\ is_same_product_raises(h[source_product], h[ids[k]])
        /\ \A j \in 1..(k - 1) : ~is_same_product_raises(h[source_product], h[ids[j]])

\* MatchRaises that matches into the aggregate itself: the candidates matched
\* before the exception stay in it
MatchRaises_KeepsPartial ==
    /\ pc = "pending"
    /\ \/ /\ returned' = Append(returned, [platform |-> scrapers[idx],
                                            raised |-> TRUE, results |-> <<>>,
                                            discarded |-> <<>>])
          /\ UNCHANGED <<heap, similar_products>>
       \/ \E search_results \in ResultLists(scrapers[idx]) :
             /\ Len(heap) + Len(search_results) <= 1 + MaxCandidates
             /\ LET ids == [i \in DOMAIN search_results |-> Len(heap) + i]
                    h == heap \o search_results
                IN  /\ find_similar_products_raises(h, source_product, ids)
                    /\ heap' = h
                    /\ similar_products' = similar_products \o
                           find_similar_products(h, source_product,
                               SubSeq(ids, 1, FirstRaising(h, ids) - 1), DefaultThreshold)
                    /\ returned' = Append(returned, [platform |-> scrapers[idx],
                                                     raised |-> TRUE, results |-> <<>>,
                                                     discarded |-> ids])
    /\ idx' = idx + 1
    /\ pc' = "loop"
    /\ UNCHANGED <<scrapers, calls, sorted_products, sim, rank, call>>

\* the search returns and find_similar_products raises, at once for a result
\* that cannot be iterated (None, a number), else at the first malformed
\* item: extend is not reached, except Exception logs it and the loop goes on
MatchRaises ==
    /\ pc = "pending"
    /\ \/ /\ returned' = Append(returned, [platform |-> scrapers[idx],
                                            raised |-> TRUE, results |-> <<>>,
                                            discarded |-> <<>>])
          /\ heap' = heap
       \/ \E search_results \in ResultLists(scrapers[idx]) :
             /\ Len(heap) + Len(search_results) <= 1 + MaxCandidates
             /\ LET ids == [i \in DOMAIN search_results |-> Len(heap) + i]
                    h == heap \o search_results
                IN  /\ find_similar_products_raises(h, source_product, ids)
                    /\ heap' = h
                    /\ returned' = Append(returned, [platform |-> scrapers[idx],
                                                     raised |-> TRUE, results |-> <<>>,
                                                     discarded |-> ids])
    /\ idx' = idx + 1
    /\ pc' = "loop"
    /\ UNCHANGED <<scrapers, similar_products, calls, sorted_products, sim, rank, call>>

\* return similar_products
SearchEnd ==
    /\ pc = "loop"
    /\ idx > Len(scrapers)
    /\ pc' = "searched"
    /\ UNCHANGED <<heap, scrapers, idx, similar_products, calls, returned,
                   sorted_products, sim, rank, call>>

\* ComparePrices that ranks the candidates without the source
ComparePrices_CandidatesOnly ==
    /\ pc = "searched"
    /\ ~compare_prices_raises(heap, similar_products)
    /\ LET r == compare_prices(heap, Tail(similar_products))
       IN  /\ heap' = r.heap
           /\ sorted_products' = r.sorted_products
    /\ pc' = "ranked"
    /\ UNCHANGED <<scrapers, idx, similar_products, calls, returned, sim, rank, call>>

\* sorted_products = price_comparison.compare_prices(similar_products)
ComparePrices ==
    /\ pc = "searched"
    /\ ~compare_prices_raises(heap, similar_products)
    /\ LET r == compare_prices(heap, similar_products)
       IN  /\ heap' = r.heap
           /\ sorted_products' = r.sorted_products
    /\ pc' = "ranked"
    /\ UNCHANGED <<scrapers, idx, similar_products, calls, returned, sim, rank, call>>

\* compare_prices raises at a product: the products before it have got their
\* numeric_price, nothing is returned and the exception leaves handle_message
ComparePricesRaises ==
    /\ pc = "searched"
    /\ compare_prices_raises(heap, similar_products)
    /\ LET k == CHOOSE k \in DOMAIN similar_products :
                    /\ compare_prices_raises_at(heap, similar_products[k])
                    /\ \A j \in 1..(k - 1) :
                          ~compare_prices_raises_at(heap, similar_products[j])
           r == FilterPriced(heap, SubSeq(similar_products, 1, k - 1), 1, <<>>)
       IN  heap' = r.heap
    /\ pc' = "compare_raised"
    /\ UNCHANGED <<scrapers, idx, similar_products, calls, returned, sorted_products,
                   sim, rank, call>>

Next ==
    \/ SearchBegin
    \/ SkipSource
    \/ CallSearch
    \/ SearchReturns
    \/ SearchRaises
    \/ MatchRaises
    \/ SearchEnd
    \/ ComparePrices
    \/ ComparePricesRaises

Spec == Init /\ [][Next]_vars

(***************************************************************************)
(* Claims about search_across_platforms, read off the state in which it    *)
(* has returned (pc = "searched").                                         *)
(***************************************************************************)
Source == heap[source_product]

\* the candidate with this object id is the same product as the source at the
\* default threshold 0.7
Matches(id) ==
    Geq(calculate_similarity(GetName(Source), GetName(heap[id])), <<7, 10>>)

\* the matched candidates of the collaborators logged in entries, platform
\* after platform
RECURSIVE Aggregate(_)
Aggregate(entries) ==
    IF entries = <<>> THEN <<>>
    ELSE SelectSeq(Head(entries).results, Matches) \o Aggregate(Tail(entries))

\* the log entries of the collaborators whose search returned
Returning(entries) == SelectSeq(entries, LAMBDA e : ~e.raised)

\* C1: the list search_across_platforms returns is never empty and its
\* first element is the source product, whatever the collaborators do.
C1_SourceFirst ==
    pc \in {"searched", "ranked"} =>
        /\ similar_products # <<>>
        /\ similar_products[1] = source_product

C1_Witness ==
    /\ pc = "searched"
    /\ \E k \in DOMAIN returned : returned[k].raised
    /\ \E k \in DOMAIN returned : ~returned[k].raised /\ returned[k].results = <<>>
    /\ \E k \in DOMAIN returned :
          /\ returned[k].results # <<>>
          /\ \A i \in DOMAIN returned[k].results : ~Matches(returned[k].results[i])
    /\ similar_products = <<source_product>>

\* C2: collaborators that raise never make search_across_platforms raise,
\* and the result is the one it would be had they returned an empty list:
\* the source, then the matched candidates of the collaborators that
\* returned.
C2_FailuresIsolated ==
    /\ pc # "raised"
    /\ pc = "searched" /\ GetName(Source) # <<>> =>
          /\ Len(returned) = Len(calls)
          /\ similar_products = <<source_product>> \o Aggregate(Returning(returned))

C2_Witness ==
    /\ pc = "searched"
    /\ \E j, k \in DOMAIN returned :
          /\ j < k
          /\ returned[j].raised
          /\ ~returned[k].raised
          /\ \E i \in DOMAIN returned[k].results :
                /\ Matches(returned[k].results[i])
                /\ Count(similar_products, returned[k].results[i]) = 1

\* C3: with an empty or missing source name the result is exactly [source]
\* and no collaborator's search is invoked.
C3_EmptyNameNoFanOut ==
    pc = "searched" /\ GetName(Source) = <<>> =>
        /\ similar_products = <<source_product>>
        /\ calls = <<>>
        /\ returned = <<>>

C3_Witness ==
    /\ pc = "searched"
    /\ Source.name = NoKey
    /\ \E i \in DOMAIN scrapers : scrapers[i] # GetPlatform(Source)

CallsTo(platform) == Cardinality({k \in DOMAIN calls : calls[k].platform = platform})

Origin(id) ==
    LET k == CHOOSE k \in DOMAIN returned :
                 \E j \in DOMAIN returned[k].results : returned[k].results[j] = id
        j == CHOOSE j \in DOMAIN returned[k].results : returned[k].results[j] = id
        p == CHOOSE p \in DOMAIN scrapers : scrapers[p] = returned[k].platform
    IN  <<p, j>>

\* C5: after the source the candidates are grouped by platform in the
\* iteration order of the mapping, and within a platform they are in the
\* order its search returned them.
C5_PlatformOrder ==
    pc = "searched" =>
        \A p, q \in 2..Len(similar_products) :
            p < q =>
               LET a == Origin(similar_products[p])
                   b == Origin(similar_products[q])
               IN  a[1] < b[1] \/ (a[1] = b[1] /\ a[2] < b[2])

C5_Witness ==
    /\ pc = "searched"
    /\ Len(similar_products) = 4
    /\ Origin(similar_products[2])[1] = Origin(similar_products[3])[1]
    /\ Origin(similar_products[3])[1] < Origin(similar_products[4])[1]

Candidates == UNION {Range(returned[k].results) : k \in DOMAIN returned}

\* C6: after the source the result holds exactly the candidates returned by
\* the other platforms' searches whose similarity to the source name is at
\* least 0.7, each as often as it was returned.
C6_ExactlyMatched ==
    pc = "searched" =>
        /\ \A id \in DOMAIN heap \ {source_product} :
              Count(similar_products, id) =
                 IF id \in Candidates /\ Matches(id) THEN 1 ELSE 0
        /\ Count(similar_products, source_product) = 1
        /\ Len(similar_products) = 1 + Cardinality({id \in Candidates : Matches(id)})
        /\ \A k \in DOMAIN returned : returned[k].platform # GetPlatform(Source)

C6_Witness ==
    /\ pc = "searched"
    /\ \E id \in Candidates : ~Matches(id)
    /\ \E x, y \in Candidates :
          /\ x # y
          /\ heap[x] = heap[y]
          /\ Count(similar_products, x) = 1
          /\ Count(similar_products, y) = 1

(***************************************************************************)
(* SpecNorm: normalize_text on a text, and on its own output.              *)
(***************************************************************************)
MaxTextLen == 3

NormAlphabet == {"a", "B", "U+00E9", "U+00C9", "U+210B", "U+0639", "!", " ", "_"}

Cafe == <<"c","a","f","e">>
CafeAccent == <<"C","a","f","U+00E9","!","!">>

NormTexts == SeqsUpTo(NormAlphabet, MaxTextLen) \cup {Cafe, CafeAccent}

NormInit ==
    /\ call \in [phase : {"input"}, text : NormTexts, once : {<<>>}, twice : {<<>>}]
    /\ pc = "idle" /\ heap = <<>> /\ scrapers = <<>> /\ idx = 0
    /\ similar_products = <<>> /\ calls = <<>> /\ returned = <<>>
    /\ sorted_products = <<>> /\ sim = Idle /\ rank = Idle

NormCall ==
    /\ call.phase = "input"
    /\ LET once == normalize_text(call.text)
       IN  call' = [call EXCEPT !.phase = "normalized", !.once = once,
                                !.twice = normalize_text(once)]
    /\ UNCHANGED <<pc, heap, scrapers, idx, similar_products, calls, returned,
                   sorted_products, sim, rank>>

NormNext == NormCall

SpecNorm == NormInit /\ [][NormNext]_vars

\* C17: normalizing the output of normalize_text again gives that output.
C17_Idempotent ==
    call.phase = "normalized" => call.twice = call.once

LowerWordChars == Range(LowerChars) \cup DigitSet \cup {"_"}

\* C18: the output of normalize_text holds lowercase ASCII word characters
\* and single spaces only, with no space at either end; "Cafe" with an
\* accent, a capital and two exclamation marks normalizes as "cafe" does;
\* the empty text gives the empty text.
C18_OutputForm ==
    call.phase = "normalized" =>
        LET out == call.once
        IN  /\ \A i \in DOMAIN out : out[i] \in LowerWordChars \cup {" "}
            /\ out # <<>> => out[1] # " " /\ out[Len(out)] # " "
            /\ \A i \in 1..(Len(out) - 1) : ~(out[i] = " " /\ out[i + 1] = " ")
            /\ call.text = CafeAccent => out = normalize_text(Cafe)
            /\ call.text = <<>> => out = <<>>

(***************************************************************************)
(* SpecPrice: extract_numeric_price on a price string.                     *)
(***************************************************************************)
MaxPriceLen == 4

PriceAlphabet == {"$", "0", "1", "5", ",", ".", " "}

\* "$99.99", "1,234", "1,234.56", "90 SAR", and a text that holds the sentinel
PriceExamples ==
    {<<"$","9","9",".","9","9">>, <<"1",",","2","3","4">>,
     <<"1",",","2","3","4",".","5","6">>, <<"9","0"," ","S","A","R">>,
     PriceNotAvailable, PriceNotAvailable \o <<" ","5">>}

PriceStrings == SeqsUpTo(PriceAlphabet, MaxPriceLen) \cup PriceExamples

PriceInit ==
    /\ call \in [phase : {"input"}, price_str : PriceStrings, result : {None}]
    /\ pc = "idle" /\ heap = <<>> /\ scrapers = <<>> /\ idx = 0
    /\ similar_products = <<>> /\ calls = <<>> /\ returned = <<>>
    /\ sorted_products = <<>> /\ sim = Idle /\ rank = Idle

PriceCall ==
    /\ call.phase = "input"
    /\ call' = [call EXCEPT !.phase = "extracted",
                           !.result = extract_numeric_price(call.price_str)]
    /\ UNCHANGED <<pc, heap, scrapers, idx, similar_products, calls, returned,
                   sorted_products, sim, rank>>

PriceNext == PriceCall

SpecPrice == PriceInit /\ [][PriceNext]_vars

HasDigit(s) == \E i \in DOMAIN s : IsDigit(s[i])

\* the price string with "." for every ","
Dotted == [i \in DOMAIN call.price_str |->
             IF call.price_str[i] = "," THEN "." ELSE call.price_str[i]]

\* Dotted[p..q] has the form digits or digits.digits
IsToken(p, q) ==
    /\ p <= q
    /\ IsDigit(Dotted[p]) /\ IsDigit(Dotted[q])
    /\ \A i \in p..q : IsDigit(Dotted[i]) \/ Dotted[i] = "."
    /\ Cardinality({i \in p..q : Dotted[i] = "."}) <= 1

\* the first maximal token of Dotted, for a price string that holds a digit
FirstToken ==
    LET p == CHOOSE i \in DOMAIN Dotted :
                 IsDigit(Dotted[i]) /\ \A k \in 1..(i - 1) : ~IsDigit(Dotted[k])
        q == CHOOSE i \in p..Len(Dotted) :
                 IsToken(p, i) /\ \A k \in (i + 1)..Len(Dotted) : ~IsToken(p, k)
    IN  SubSeq(Dotted, p, q)

\* the number a token of the form digits or digits.digits writes
TokenValue(token) ==
    LET decimals == Cardinality({i \in DOMAIN token :
                        \E k \in 1..(i - 1) : token[k] = "."})
    IN  <<DigitsValue(SelectSeq(token, IsDigit)), Pow10(decimals)>>

\* C19: for a price string that holds a digit the result is the value of
\* the first maximal token digits or digits.digits of the string with its
\* commas replaced by dots: "$99.99" gives 99.99, "1,234" gives 1.234,
\* "1,234.56" gives 1.234, "90 SAR" gives 90.
C19_FirstToken ==
    (call.phase = "extracted" /\ HasDigit(call.price_str)) =>
        /\ call.result # None
        /\ RatEq(call.result, TokenValue(FirstToken))
        /\ call.price_str = <<"$","9","9",".","9","9">> => RatEq(call.result, <<9999, 100>>)
        /\ call.price_str = <<"1",",","2","3","4">> => RatEq(call.result, <<1234, 1000>>)
        /\ call.price_str = <<"1",",","2","3","4",".","5","6">>
              => RatEq(call.result, <<1234, 1000>>)
        /\ call.price_str = <<"9","0"," ","S","A","R">> => RatEq(call.result, <<90, 1>>)

\* "1,234.56": the token is "1.234", what follows it is ignored
C19_Witness ==
    /\ call.phase = "extracted"
    /\ call.price_str = <<"1",",","2","3","4",".","5","6">>
    /\ FirstToken = <<"1",".","2","3","4">>
    /\ call.result = <<617, 500>>

\* C20: the result is None exactly when the price string is empty, is
\* "Price not available" or holds no digit; otherwise it is a number, and a
\* price of 0 is the number 0, not None.
C20_AbsentIff ==
    call.phase = "extracted" =>
        /\ call.result = None
              <=> \/ call.price_str = <<>>
                  \/ call.price_str = PriceNotAvailable
                  \/ ~HasDigit(call.price_str)
        /\ call.result # None =>
              /\ Len(call.result) = 2
              /\ call.result[1] \in Nat /\ call.result[2] \in Nat \ {0}

\* a price of 0 is extracted as the number 0
C20_Witness ==
    /\ call.phase = "extracted"
    /\ call.price_str = <<"$", "0", ".", "0">>
    /\ call.result = <<0, 1>>

(***************************************************************************)
(* SpecLive: the pipeline with the scheduling of search_across_platforms.  *)
(* The function's own steps are taken when they can be: it is sequential   *)
(* code that runs on.  Nothing makes a collaborator's search_product       *)
(* return or raise: requests.get is called without a timeout and           *)
(* search_across_platforms sets none.                                      *)
(***************************************************************************)
SpecLive ==
    /\ Init /\ [][Next]_vars
    /\ WF_vars(SearchBegin)
    /\ WF_vars(SkipSource)
    /\ WF_vars(CallSearch)
    /\ WF_vars(SearchEnd)

\* a platform later in the mapping is still to be searched
MoreToCall ==
    \E i \in (idx + 1)..Len(scrapers) : scrapers[i] # GetPlatform(Source)

\* C21: the per-platform searches run concurrently: while a call is
\* outstanding and a later platform is still to be searched, that platform's
\* request starts (a second call becomes outstanding) unless the first call
\* returns before: a slow platform does not delay the start of the others.
C21_LaterStartsNotDelayed ==
    (pc = "pending" /\ MoreToCall)
        ~> (Len(calls) > Len(returned) + 1 \/ Len(returned) = Len(calls))

\* C22: search_across_platforms eventually returns to its caller, also when
\* a collaborator's search never returns.
C22_EventuallyReturns == <>(pc \in {"searched", "ranked", "compare_raised"})

\* C23: a platform whose handling raises, in its search or part-way through
\* the matching of its results, leaves none of its candidates in the
\* aggregate, and the aggregate is the source followed by the matches of the
\* platforms whose handling completed, as it was before that platform.
C23_FailedPlatformContributesNothing ==
    pc \in {"loop", "pending", "searched"} =>
        /\ \A k \in DOMAIN returned :
              returned[k].raised =>
                 \A i \in DOMAIN returned[k].discarded :
                    Count(similar_products, returned[k].discarded[i]) = 0
        /\ similar_products = <<source_product>> \o Aggregate(Returning(returned))

C23_Witness ==
    /\ pc = "searched"
    /\ \E j, k \in DOMAIN returned :
          /\ j < k
          /\ ~returned[j].raised
          /\ \E i \in DOMAIN returned[j].results :
                Count(similar_products, returned[j].results[i]) = 1
          /\ returned[k].raised
          /\ Len(returned[k].discarded) = 2
          /\ Matches(returned[k].discarded[1])
          /\ is_same_product_raises(Source, heap[returned[k].discarded[2]])

\* C24: with malformed collaborator data (a result that is no list, items
\* that are no records, records whose name or price has the wrong type)
\* search_across_platforms followed by compare_prices never raises to the
\* caller.
C24_NeverRaises == pc \notin {"raised", "compare_raised"}

\* the ranked products have their numeric price and are in ascending order
Ascending ==
    \A p, q \in DOMAIN sorted_products :
        p < q => Leq(heap[sorted_products[p]].numeric_price,
                     heap[sorted_products[q]].numeric_price)

\* noon and temu have returned the lists of the worked example
ExampleReturned ==
    /\ Source = [ExampleSource EXCEPT !.numeric_price = <<25, 1>>]
    /\ \E k \in DOMAIN returned :
          /\ returned[k].platform = "noon"
          /\ ~returned[k].raised
          /\ Len(returned[k].results) = 1
    /\ \E k \in DOMAIN returned :
          /\ returned[k].platform = "temu"
          /\ ~returned[k].raised
          /\ Len(returned[k].results) = 1

\* C25: compare_prices(search_across_platforms(source, collaborators)) is the
\* priced products among the source and the matching candidates, in
\* ascending price order; for the source {amazon, "Wireless Mouse X200",
\* "$25.00"} with noon returning "Wireless Mouse X200 Black" at "90 SAR" and
\* temu returning "Totally Different Item" at "$3.00" it is exactly the
\* amazon product (25.0) followed by the noon product (90.0).
C25_EndToEnd ==
    pc = "ranked" =>
        /\ Ascending
        /\ \A id \in DOMAIN heap :
              Count(sorted_products, id) =
                 IF /\ id = source_product \/ (id \in Candidates /\ Matches(id))
                    /\ extract_numeric_price(GetPrice(heap[id])) # None
                 THEN 1 ELSE 0
        /\ ExampleReturned =>
              /\ Len(sorted_products) = 2
              /\ sorted_products[1] = source_product
              /\ heap[sorted_products[1]].numeric_price = <<25, 1>>
              /\ heap[sorted_products[2]] =
                    [Product("noon", nWirelessBlack, <<"9","0"," ","S","A","R">>)
                        EXCEPT !.numeric_price = <<90, 1>>]

C25_Witness ==
    /\ pc = "ranked"
    /\ ExampleReturned
    /\ Len(sorted_products) = 2

(***************************************************************************)
(* LinkParser.  A URL is a tuple of characters; re.search with a pattern   *)
(* of literal alternatives is the search for one of the literals.          *)
(***************************************************************************)
\* s[i:].startswith(sub), positions from 1
StartsWithAt(s, sub, i) ==
    /\ i + Len(sub) - 1 <= Len(s)
    /\ SubSeq(s, i, i + Len(sub) - 1) = sub

Contains(s, sub) == \E i \in DOMAIN s : StartsWithAt(s, sub, i)

\* length of the maximal run of characters of S in s from position i
RECURSIVE RunIn(_, _, _)
RunIn(s, i, S) == IF i <= Len(s) /\ s[i] \in S THEN 1 + RunIn(s, i + 1, S) ELSE 0

Least(S) == CHOOSE i \in S : \A j \in S : i <= j

AlnumSet == UpperSet \cup Range(LowerChars) \cup DigitSet
SchemeChars == AlnumSet \cup {"+", "-", "."}

\* SUPPORTED_PLATFORMS in dict order, and the literals each pattern stands for
PlatformOrder == <<"amazon", "aliexpress", "noon", "temu">>

SUPPORTED_PLATFORMS(platform) ==
    IF platform = "amazon" THEN
        {<<"a","m","a","z","o","n",".","c","o","m">>,
         <<"a","m","a","z","o","n",".","c","o",".","u","k">>,
         <<"a","m","a","z","o","n",".","d","e">>,
         <<"a","m","a","z","o","n",".","f","r">>,
         <<"a","m","a","z","o","n",".","i","t">>,
         <<"a","m","a","z","o","n",".","e","s">>,
         <<"a","m","a","z","o","n",".","c","a">>,
         <<"a","m","a","z","o","n",".","c","o","m",".","a","u">>,
         <<"a","m","a","z","o","n",".","c","o","m",".","b","r">>,
         <<"a","m","a","z","o","n",".","n","l">>,
         <<"a","m","a","z","o","n",".","i","n">>,
         <<"a","m","a","z","o","n",".","j","p">>,
         <<"a","m","a","z","o","n",".","a","e">>}
    ELSE IF platform = "aliexpress" THEN
        {<<"a","l","i","e","x","p","r","e","s","s",".","c","o","m">>,
         <<"a","l","i","e","x","p","r","e","s","s",".","r","u">>}
    ELSE IF platform = "noon" THEN
        {<<"n","o","o","n",".","c","o","m">>,
         <<"n","o","o","n",".","c","o","m",".","e","g">>,
         <<"n","o","o","n",".","c","o","m",".","s","a">>}
    ELSE
        {<<"t","e","m","u",".","c","o","m">>}

\* urlparse(url): the scheme and the netloc
urlparse(url) ==
    LET colons == {i \in DOMAIN url : url[i] = ":"}
        i == IF colons = {} THEN 0 ELSE Least(colons)
        has_scheme == /\ i > 1
                      /\ url[1] \in UpperSet \cup Range(LowerChars)
                      /\ \A k \in 1..(i - 1) : url[k] \in SchemeChars
        rest == IF has_scheme THEN SubSeq(url, i + 1, Len(url)) ELSE url
        ends == {k \in 3..Len(rest) : rest[k] \in {"/", "?", "#"}}
        stop == IF ends = {} THEN Len(rest) + 1 ELSE Least(ends)
    IN  [scheme |-> IF has_scheme THEN Lower(SubSeq(url, 1, i - 1)) ELSE <<>>,
         netloc |-> IF StartsWithAt(rest, <<"/", "/">>, 1)
                    THEN SubSeq(rest, 3, stop - 1) ELSE <<>>]

\* urlparse raises ValueError: one bracket of an IPv6 host without the other
urlparse_raises(url) ==
    LET netloc == urlparse(url).netloc
    IN  ("[" \in Range(netloc)) # ("]" \in Range(netloc))

\* all([result.scheme, result.netloc]); except: return False
validate_url(url) ==
    IF urlparse_raises(url) THEN FALSE
    ELSE LET result == urlparse(url)
         IN  result.scheme # <<>> /\ result.netloc # <<>>

\* detect_platform returns None
PlatformNone == "<None>"

\* re.search(pattern, domain) for the pattern of the platform
PatternMatches(platform, domain) ==
    \E literal \in SUPPORTED_PLATFORMS(platform) : Contains(domain, literal)

detect_platform(url) ==
    IF ~validate_url(url) THEN PlatformNone
    ELSE LET domain == Lower(urlparse(url).netloc)
             found == {k \in DOMAIN PlatformOrder : PatternMatches(PlatformOrder[k], domain)}
         IN  IF found = {} THEN PlatformNone ELSE PlatformOrder[Least(found)]

AsinLen == 10

\* re.search(prefix + '([A-Z0-9]{10})', url): group 1 of the leftmost match,
\* None for no match
AsinAfter(url, prefix) ==
    LET hits == {i \in DOMAIN url :
                    /\ StartsWithAt(url, prefix, i)
                    /\ RunIn(url, i + Len(prefix), UpperSet \cup DigitSet) >= AsinLen}
        at == Least(hits) + Len(prefix)
    IN  IF hits = {} THEN None ELSE SubSeq(url, at, at + AsinLen - 1)

\* re.search(r'/item/(\d+)\.html', url)
ItemId(url) ==
    LET prefix == <<"/","i","t","e","m","/">>
        hits == {i \in DOMAIN url :
                    /\ StartsWithAt(url, prefix, i)
                    /\ RunIn(url, i + 6, DigitSet) >= 1
                    /\ StartsWithAt(url, <<".","h","t","m","l">>,
                                    i + 6 + RunIn(url, i + 6, DigitSet))}
        at == Least(hits) + 6
    IN  IF hits = {} THEN None ELSE SubSeq(url, at, at + RunIn(url, at, DigitSet) - 1)

\* re.search(r'/([A-Za-z0-9]+)(?:\?.*)?$', url)
NoonId(url) ==
    LET hits == {i \in DOMAIN url :
                    /\ url[i] = "/"
                    /\ RunIn(url, i + 1, AlnumSet) >= 1
                    /\ LET after == i + 1 + RunIn(url, i + 1, AlnumSet)
                       IN  after > Len(url) \/ url[after] = "?"}
        at == Least(hits) + 1
    IN  IF hits = {} THEN None ELSE SubSeq(url, at, at + RunIn(url, at, AlnumSet) - 1)

\* re.search(r'_([0-9]+)_', url)
TemuId(url) ==
    LET hits == {i \in DOMAIN url :
                    /\ url[i] = "_"
                    /\ RunIn(url, i + 1, DigitSet) >= 1
                    /\ LET after == i + 1 + RunIn(url, i + 1, DigitSet)
                       IN  after <= Len(url) /\ url[after] = "_"}
        at == Least(hits) + 1
    IN  IF hits = {} THEN None ELSE SubSeq(url, at, at + RunIn(url, at, DigitSet) - 1)

extract_product_id(url, platform) ==
    IF platform = "amazon" THEN
        LET dp_match == AsinAfter(url, <<"/","d","p","/">>)
            gp_match == AsinAfter(url, <<"/","g","p","/","p","r","o","d","u","c","t","/">>)
        IN  IF dp_match # None THEN dp_match ELSE gp_match
    ELSE IF platform = "aliexpress" THEN ItemId(url)
    ELSE IF platform = "noon" THEN NoonId(url)
    ELSE IF platform = "temu" THEN TemuId(url)
    ELSE None

\* the dict parse_product_link returns; a key it does not hold is missing
ParseFailure(error) ==
    [success |-> FALSE, error |-> error, platform |-> NoPlatform,
     product_id |-> NoKey, original_url |-> NoKey]

\* parse_product_link that looks for the platform before it validates
parse_product_link_PlatformFirst(url) ==
    LET platform == detect_platform(url)
        product_id == extract_product_id(url, platform)
    IN  IF platform = PlatformNone THEN ParseFailure("unsupported_platform")
        ELSE IF ~validate_url(url) THEN ParseFailure("invalid_url")
        ELSE IF product_id = None THEN ParseFailure("product_id_not_found")
        ELSE [success |-> TRUE, error |-> NoPlatform, platform |-> platform,
              product_id |-> product_id, original_url |-> url]

parse_product_link(url) ==
    LET platform == detect_platform(url)
        product_id == extract_product_id(url, platform)
    IN  IF ~validate_url(url) THEN ParseFailure("invalid_url")
        ELSE IF platform = PlatformNone THEN ParseFailure("unsupported_platform")
        ELSE IF product_id = None THEN ParseFailure("product_id_not_found")
        ELSE [success |-> TRUE, error |-> NoPlatform, platform |-> platform,
              product_id |-> product_id, original_url |-> url]

(***************************************************************************)
(* SpecLink: parse_product_link on a URL put together from a beginning, a  *)
(* network location and a rest.                                            *)
(***************************************************************************)
UrlBeginnings ==
    {<<>>,
     <<"h","t","t","p",":","/","/">>,
     <<"h","t","t","p","s",":","/","/">>,
     <<"h","t","t","p",":">>,
     <<"/","/">>,
     <<"H","T","T","P",":","/","/">>,
     <<"1","h","t","t","p",":","/","/">>}

UrlNetlocs ==
    {<<>>,
     <<"a","m","a","z","o","n",".","c","o","m">>,
     <<"w","w","w",".","A","M","A","Z","O","N",".","d","e">>,
     <<"a","l","i","e","x","p","r","e","s","s",".","r","u">>,
     <<"n","o","o","n",".","c","o","m">>,
     <<"t","e","m","u",".","c","o","m">>,
     <<"e","x","a","m","p","l","e",".","o","r","g">>,
     <<"n","o","o","n",".","c","o","m",".","a","m","a","z","o","n",".","d","e">>,
     <<"a","m","a","z","o","n",".","o","r","g">>,
     <<"[",":",":","1">>}

UrlRests ==
    {<<>>,
     <<"/","d","p","/","B","0","0","0","0","0","0","0","0","1">>,
     <<"/","d","p","/","b","0","0","0","0","0","0","0","0","1">>,
     <<"/","g","p","/","p","r","o","d","u","c","t","/","B","0","0","0","0","0","0","0","0","Z">>,
     <<"/","i","t","e","m","/","1","2","3",".","h","t","m","l">>,
     <<"/","i","t","e","m","/","x",".","h","t","m","l">>,
     <<"/","p","/","N","1","2","3">>,
     <<"/","p","/","N","1","2","3","?","x","=","1">>,
     <<"/","p","/","N","-","1","/">>,
     <<"/","g","_","6","0","1","_",".","h","t","m","l">>}

Urls == {b \o n \o r : b \in UrlBeginnings, n \in UrlNetlocs, r \in UrlRests}

LinkInit ==
    /\ call \in [phase : {"url"}, url : Urls, result : {ParseFailure(NoPlatform)}]
    /\ pc = "idle" /\ heap = <<>> /\ scrapers = <<>> /\ idx = 0
    /\ similar_products = <<>> /\ calls = <<>> /\ returned = <<>>
    /\ sorted_products = <<>> /\ sim = Idle /\ rank = Idle

LinkCall ==
    /\ call.phase = "url"
    /\ call' = [call EXCEPT !.phase = "parsed", !.result = parse_product_link(call.url)]
    /\ UNCHANGED <<pc, heap, scrapers, idx, similar_products, calls, returned,
                   sorted_products, sim, rank>>

LinkNext == LinkCall

SpecLink == LinkInit /\ [][LinkNext]_vars

\* C30: parse_product_link returns invalid_url for a URL without scheme or
\* network location; else unsupported_platform when no platform pattern
\* matches the network location; else product_id_not_found when no id is
\* extracted for the platform detected; else success with that platform, a
\* non-empty product_id and the URL as it was given.
C30_ErrorPrecedence ==
    call.phase = "parsed" =>
        LET url == call.url
            parts == urlparse(url)
            valid == /\ ~urlparse_raises(url)
                     /\ parts.scheme # <<>>
                     /\ parts.netloc # <<>>
            matching == {k \in DOMAIN PlatformOrder :
                            PatternMatches(PlatformOrder[k], Lower(parts.netloc))}
            platform == PlatformOrder[Least(matching)]
        IN  IF ~valid THEN call.result = ParseFailure("invalid_url")
            ELSE IF matching = {} THEN call.result = ParseFailure("unsupported_platform")
            ELSE IF extract_product_id(url, platform) = None
                 THEN call.result = ParseFailure("product_id_not_found")
            ELSE /\ call.result.success
                 /\ call.result.platform = platform
                 /\ call.result.product_id = extract_product_id(url, platform)
                 /\ call.result.product_id # <<>>
                 /\ call.result.original_url = url

\* a noon link with a query: the id is the last path segment
C30_Witness ==
    /\ call.phase = "parsed"
    /\ Contains(call.url, <<"?","x","=","1">>)
    /\ call.result.success
    /\ call.result.platform = "noon"
    /\ call.result.product_id = <<"N","1","2","3">>
    /\ call.result.original_url = call.url

(***************************************************************************)
(* SpecBot: handle_message on a text message, reply by reply, with the     *)
(* error handler of the application.  A reply is logged by its translation *)
(* key, the comparison message as "comparison_result".  pc is the position *)
(* in the handler, call holds the message and what is sent.                *)
(***************************************************************************)
MaxBotResults == 2

BotTexts ==
    {<<"h","e","l","l","o">>,
     <<"h","t","t","p">>,
     <<"h","t","t","p",":","/","/"," ","x">>,
     <<"h","t","t","p",":","/","/","/","x">>,
     <<"s","e","e"," ","h","t","t","p",":","/","/","e","x","a","m","p","l","e",".","o","r","g","/","x">>,
     <<"h","t","t","p","s",":","/","/","n","o","o","n",".","c","o","m","/">>,
     <<"b","u","y"," ","h","t","t","p","s",":","/","/","a","m","a","z","o","n",".","c","o","m","/","d","p","/","B","0","0","0","0","0","0","0","0","1"," ","n","o","w">>,
     <<"h","t","t","p","s",":","/","/","t","e","m","u",".","c","o","m","/","g","_","6","0","1","_",".","h","t","m","l">>}

\* length of the run of non-whitespace characters of s from position i
RECURSIVE NonSpaceRun(_, _)
NonSpaceRun(s, i) ==
    IF i <= Len(s) /\ ~IsSpace(s[i]) THEN 1 + NonSpaceRun(s, i + 1) ELSE 0

\* re.findall(r'https?://[^\s]+', message_text)[0], None for no match
FirstUrl(text) ==
    LET http == <<"h","t","t","p",":","/","/">>
        https == <<"h","t","t","p","s",":","/","/">>
        Head7(i) == StartsWithAt(text, http, i) /\ NonSpaceRun(text, i + 7) >= 1
        Head8(i) == StartsWithAt(text, https, i) /\ NonSpaceRun(text, i + 8) >= 1
        starts == {i \in DOMAIN text : Head7(i) \/ Head8(i)}
        i == Least(starts)
    IN  IF starts = {} THEN None ELSE SubSeq(text, i, i + NonSpaceRun(text, i) - 1)

\* get_scraper(platform): scrapers.get(platform.lower())
get_scraper(platform) ==
    IF platform \in Range(PlatformOrder) THEN platform ELSE PlatformNone

\* what get_product_details may return on success
BotSources(platform) ==
    {Product(platform, nMouse, <<"$","5",".","0","0">>),
     Product(platform, nMouse, PriceNotAvailable)}

\* what the other platforms may list for the source: <<name, price>>
BotCatalog ==
    {<<nMouseBang, <<"$","3">>>>,
     <<nMouse2, <<"1","0">>>>,
     <<nMop, <<"1">>>>,
     <<nMouseBang, WrongType>>}

\* a platform other than the source's
OtherPlatform(platform) == IF platform = "noon" THEN "amazon" ELSE "noon"

\* platform_translations['en'].get(platform, platform)
PlatformName(platform) ==
    IF platform = "amazon" THEN "Amazon"
    ELSE IF platform = "aliexpress" THEN "AliExpress"
    ELSE IF platform = "noon" THEN "Noon"
    ELSE IF platform = "temu" THEN "Temu"
    ELSE platform

\* product.get('url', '') of the dict with this object id
Url(id) == <<"url", id>>

\* convert_to_affiliate_link(url, platform)
convert_to_affiliate_link(url, platform) == <<"affiliate link", platform>> \o url

\* the affiliate_url process_products_with_affiliate_links puts into the dict,
\* NoKey when it puts none
AffiliateUrl(h, id) ==
    IF GetPlatform(h[id]) # ""
    THEN convert_to_affiliate_link(Url(id), GetPlatform(h[id]))
    ELSE NoKey

\* process_products_with_affiliate_links returns the list it was given
process_products_with_affiliate_links(products) == products

\* the formatted dict of one product
FormattedProduct(h, id) ==
    [platform |-> PlatformName(GetPlatform(h[id])),
     name |-> GetName(h[id]),
     price |-> IF h[id].price = NoKey THEN <<>> ELSE h[id].price,
     url |-> Url(id),
     affiliate_url |-> IF AffiliateUrl(h, id) = NoKey THEN Url(id) ELSE AffiliateUrl(h, id)]

\* format_comparison_results in reverse order
format_comparison_results_Reversed(h, products) ==
    [i \in DOMAIN products |-> FormattedProduct(h, products[Len(products) + 1 - i])]

format_comparison_results(h, products) ==
    [i \in DOMAIN products |-> FormattedProduct(h, products[i])]

\* format_price_comparison_message: the cheapest option, then the others
format_price_comparison_message(products) ==
    [cheapest |-> [name |-> products[1].name, price |-> products[1].price,
                   platform |-> products[1].platform],
     others |-> [i \in 1..(Len(products) - 1) |->
                    [name |-> products[i + 1].name, price |-> products[i + 1].price,
                     platform |-> products[i + 1].platform]]]

\* the inline keyboard: one button per formatted product
Keyboard(formatted_results) ==
    [i \in DOMAIN formatted_results |->
        [text |-> IF i = 1 THEN "view_product" ELSE formatted_results[i].platform,
         url |-> formatted_results[i].affiliate_url]]

Reply(key) == [call EXCEPT !.replies = Append(call.replies, key)]

BotInit ==
    /\ pc = "received"
    /\ call \in [phase : {"bot"}, text : BotTexts, replies : {<<>>},
                 formatted_results : {<<>>}, message : {<<>>}, keyboard : {<<>>}]
    /\ heap = <<>> /\ scrapers = <<>> /\ idx = 0
    /\ similar_products = <<>> /\ calls = <<>> /\ returned = <<>>
    /\ sorted_products = <<>> /\ sim = Idle /\ rank = Idle

\* no "http" in the text: the help reply
BotHelp ==
    /\ pc = "received"
    /\ ~Contains(call.text, <<"h","t","t","p">>)
    /\ call' = Reply("help")
    /\ pc' = "done"
    /\ UNCHANGED <<heap, scrapers, idx, similar_products, calls, returned,
                   sorted_products, sim, rank>>

BotProcessing ==
    /\ pc = "received"
    /\ Contains(call.text, <<"h","t","t","p">>)
    /\ call' = Reply("processing")
    /\ pc' = "processing"
    /\ UNCHANGED <<heap, scrapers, idx, similar_products, calls, returned,
                   sorted_products, sim, rank>>

\* no URL is found, or the first URL does not parse
BotLinkFails ==
    /\ pc = "processing"
    /\ LET url == FirstUrl(call.text)
           parse_result == parse_product_link(url)
       IN  \/ /\ url = None
              /\ call' = Reply("invalid_link")
           \/ /\ url # None
              /\ ~parse_result.success
              /\ call' = Reply(IF parse_result.error = "invalid_url"
                               THEN "invalid_link"
                               ELSE IF parse_result.error = "unsupported_platform"
                               THEN "unsupported_platform"
                               ELSE "error_occurred")
    /\ pc' = "done"
    /\ UNCHANGED <<heap, scrapers, idx, similar_products, calls, returned,
                   sorted_products, sim, rank>>

\* the link parses and get_product_details fails
BotFetchFails ==
    /\ pc = "processing"
    /\ FirstUrl(call.text) # None
    /\ LET parse_result == parse_product_link(FirstUrl(call.text))
       IN  /\ parse_result.success
           /\ call' = Reply(IF get_scraper(parse_result.platform) = PlatformNone
                            THEN "unsupported_platform" ELSE "error_occurred")
    /\ pc' = "done"
    /\ UNCHANGED <<heap, scrapers, idx, similar_products, calls, returned,
                   sorted_products, sim, rank>>

\* the link parses and get_product_details succeeds
BotFetchSucceeds ==
    /\ pc = "processing"
    /\ FirstUrl(call.text) # None
    /\ LET parse_result == parse_product_link(FirstUrl(call.text))
       IN  /\ parse_result.success
           /\ get_scraper(parse_result.platform) # PlatformNone
           /\ \E product_details \in BotSources(parse_result.platform) :
                 heap' = <<product_details>>
    /\ call' = Reply("searching")
    /\ pc' = "searching"
    /\ UNCHANGED <<scrapers, idx, similar_products, calls, returned,
                   sorted_products, sim, rank>>

\* search_across_platforms returns the source and the matching candidates
\* of what the other platforms list
BotSearch ==
    /\ pc = "searching"
    /\ \E items \in SeqsUpTo(BotCatalog, MaxBotResults) :
          LET platform == OtherPlatform(GetPlatform(heap[source_product]))
              search_results == [i \in DOMAIN items |->
                                    Product(platform, items[i][1], items[i][2])]
              ids == [i \in DOMAIN items |-> Len(heap) + i]
              h == heap \o search_results
          IN  /\ heap' = h
              /\ similar_products' = <<source_product>> \o
                    find_similar_products(h, source_product, ids, DefaultThreshold)
    /\ call' = Reply("comparing")
    /\ pc' = "comparing"
    /\ UNCHANGED <<scrapers, idx, calls, returned, sorted_products, sim, rank>>

\* BotCompare that announces the links before it looks at the ranked list
BotCompare_LinksFirst ==
    /\ pc = "comparing"
    /\ ~compare_prices_raises(heap, similar_products)
    /\ LET r == compare_prices(heap, similar_products)
       IN  /\ heap' = r.heap
           /\ sorted_products' = r.sorted_products
           /\ IF r.sorted_products = <<>>
              THEN /\ call' = [call EXCEPT !.replies =
                                  call.replies \o <<"generating_links", "no_results">>]
                   /\ pc' = "done"
              ELSE call' = Reply("generating_links") /\ pc' = "generating"
    /\ UNCHANGED <<scrapers, idx, similar_products, calls, returned, sim, rank>>

\* compare_prices returns: no_results for an empty list, else on to the links
BotCompare ==
    /\ pc = "comparing"
    /\ ~compare_prices_raises(heap, similar_products)
    /\ LET r == compare_prices(heap, similar_products)
       IN  /\ heap' = r.heap
           /\ sorted_products' = r.sorted_products
           /\ IF r.sorted_products = <<>>
              THEN call' = Reply("no_results") /\ pc' = "done"
              ELSE call' = Reply("generating_links") /\ pc' = "generating"
    /\ UNCHANGED <<scrapers, idx, similar_products, calls, returned, sim, rank>>

\* compare_prices raises: the exception leaves handle_message
BotCompareRaises ==
    /\ pc = "comparing"
    /\ compare_prices_raises(heap, similar_products)
    /\ pc' = "failed"
    /\ UNCHANGED <<heap, scrapers, idx, similar_products, calls, returned,
                   sorted_products, sim, rank, call>>

\* affiliate links, formatting, message and keyboard, and the last reply
BotPresent ==
    /\ pc = "generating"
    /\ LET products_with_affiliate == process_products_with_affiliate_links(sorted_products)
           formatted_results == format_comparison_results(heap, products_with_affiliate)
       IN  call' = [call EXCEPT
                       !.replies = Append(call.replies, "comparison_result"),
                       !.formatted_results = formatted_results,
                       !.message = format_price_comparison_message(formatted_results),
                       !.keyboard = Keyboard(formatted_results)]
    /\ pc' = "done"
    /\ UNCHANGED <<heap, scrapers, idx, similar_products, calls, returned,
                   sorted_products, sim, rank>>

\* error_handler: the user is told that an error occurred
BotErrorHandler ==
    /\ pc = "failed"
    /\ call' = Reply("error_occurred")
    /\ pc' = "done"
    /\ UNCHANGED <<heap, scrapers, idx, similar_products, calls, returned,
                   sorted_products, sim, rank>>

BotNext ==
    \/ BotHelp
    \/ BotProcessing
    \/ BotLinkFails
    \/ BotFetchFails
    \/ BotFetchSucceeds
    \/ BotSearch
    \/ BotCompare
    \/ BotCompareRaises
    \/ BotPresent
    \/ BotErrorHandler

SpecBot == BotInit /\ [][BotNext]_vars

TerminalReplies ==
    {"invalid_link", "unsupported_platform", "error_occurred", "no_results",
     "comparison_result"}

ProgressReplies == {"searching", "comparing", "generating_links"}

\* the positions of the reply in the replies sent so far
At(key) == {i \in DOMAIN call.replies : call.replies[i] = key}

\* C28: for a text that holds "http" the first reply is 'processing'; at most
\* one terminal reply is sent, as the last reply, and exactly one when the
\* handling has ended; 'searching', 'comparing' and 'generating_links' are sent
\* at most once each and in this order, 'searching' only after the link has
\* parsed and the source product was fetched, 'generating_links' only with a
\* non-empty ranked list.
C28_ReplyOrder ==
    call.phase = "bot" /\ Contains(call.text, <<"h","t","t","p">>) =>
        LET terminals == {i \in DOMAIN call.replies : call.replies[i] \in TerminalReplies}
        IN  /\ call.replies # <<>> => call.replies[1] = "processing"
            /\ \A i \in DOMAIN call.replies :
                  /\ call.replies[i] \in TerminalReplies \cup ProgressReplies \cup {"processing"}
                  /\ call.replies[i] = "processing" => i = 1
            /\ Cardinality(terminals) <= 1
            /\ \A i \in terminals : i = Len(call.replies)
            /\ pc = "done" => Cardinality(terminals) = 1
            /\ \A key \in ProgressReplies : Cardinality(At(key)) <= 1
            /\ \A i \in At("comparing") : \E j \in At("searching") : j < i
            /\ \A i \in At("generating_links") : \E j \in At("comparing") : j < i
            /\ At("searching") # {} =>
                  /\ FirstUrl(call.text) # None
                  /\ parse_product_link(FirstUrl(call.text)).success
                  /\ heap # <<>>
                  /\ heap[source_product].platform =
                        parse_product_link(FirstUrl(call.text)).platform
            /\ At("generating_links") # {} => sorted_products # <<>>

C28_Witness ==
    /\ call.phase = "bot"
    /\ pc = "done"
    /\ call.replies = <<"processing", "searching", "comparing", "generating_links",
                        "comparison_result">>

\* C29: the formatted results, the message and the keyboard hold the ranked
\* products one for one in the order of compare_prices, so the cheapest
\* option of the message and the first button are those of a product whose
\* extracted price is minimal among the ranked products.
C29_CheapestFirst ==
    call.phase = "bot" /\ At("comparison_result") # {} =>
        LET first == sorted_products[1]
            Price(id) == extract_numeric_price(GetPrice(heap[id]))
        IN  /\ Len(call.formatted_results) = Len(sorted_products)
            /\ Len(call.keyboard) = Len(sorted_products)
            /\ Len(call.message.others) = Len(sorted_products) - 1
            /\ \A i \in DOMAIN sorted_products :
                  /\ call.formatted_results[i].url = Url(sorted_products[i])
                  /\ call.formatted_results[i].name = GetName(heap[sorted_products[i]])
                  /\ call.formatted_results[i].price = heap[sorted_products[i]].price
                  /\ Leq(Price(first), Price(sorted_products[i]))
            /\ call.message.cheapest.name = GetName(heap[first])
            /\ call.message.cheapest.price = heap[first].price
            /\ call.keyboard[1].text = "view_product"
            /\ call.keyboard[1].url =
                  convert_to_affiliate_link(Url(first), GetPlatform(heap[first]))

\* the source at "$5.00" with candidates at "10" and "$3": the candidate at
\* "$3" is presented as the cheapest
C29_Witness ==
    /\ call.phase = "bot"
    /\ pc = "done"
    /\ similar_products = <<1, 2, 3>>
    /\ sorted_products = <<3, 1, 2>>
    /\ call.message.cheapest.price = <<"$","3">>
    /\ call.keyboard[1].url = <<"affiliate link", "noon", "url", 3>>

====
